---- MODULE Spec2Model ----
(***************************************************************************)
(* Model of the tobmap route service (crates/server/src/route.rs), of the  *)
(* part of the graph builder that lays out the graph blob the service      *)
(* reads (crates/graphbuild/src/lib.rs), and of the snap index builder     *)
(* (crates/snapbuild/src/lib.rs).                                          *)
(*                                                                         *)
(* Node and edge indices are 0-based as in the code; the TLA+ sequences    *)
(* that hold the blob's vectors are 1-based, so vector element i is        *)
(* seq[i + 1].                                                             *)
(***************************************************************************)
EXTENDS Integers, Sequences, FiniteSets, TLC

VARIABLES
    graph_data,     \* MyRouteService.graph_data: None or Some(graph blob)
    request,        \* the RouteRequest being served, if any
    response,       \* the answer of route() to that request, if any
    config,         \* snapbuild: Config (the two cell levels), if started
    location_blob,  \* snapbuild: node_location_items, the cell id per node
    outer_buckets,  \* snapbuild: the result of build_outer_buckets, if built
    snap_files,     \* snapbuild: the files written, by outer cell id
    snap_buckets,   \* MySnapService.snap_buckets: the files loaded, if started
    osm,            \* graphbuild: the ways and nodes read from the OSM data
    built,          \* graphbuild: the result of osm_to_graph_blob, if it has run
    search          \* find_shortest_path: distances, prev_info and pq of a run

vars == <<graph_data, request, response, config, location_blob, outer_buckets,
          snap_files, snap_buckets, osm, built, search>>

(* The variables of the graph builder *)
build_vars == <<osm, built>>

----------------------------------------------------------------------------
(* Bounds of the model *)

NumNodes == 4        \* nodes of the graphs explored
MaxEdges == 4        \* edges of the graphs explored
MaxK == 2            \* largest num_paths a request asks for
MaxDirected == 1     \* edges built from one-way or reversed ways
MaxLights == 1       \* nodes tagged highway=traffic_signals
MaxLevel == 2        \* levels of the cell hierarchy
NumOsmNodes == 3     \* OSM nodes of the data the builder reads
MaxWays == 2         \* ways of that data
MaxWayLen == 3       \* nodes of a way
MaxSearchEdges == 3  \* edges of the graphs a single search is stepped through

(* Program constants *)

(* u32::MAX is 4294967295; the model checker's integers end at 2^31 - 1, so *)
(* the ceiling at which costs saturate is put there.  Edge costs are below *)
(* 2^13 and interaction costs at most 32.                                  *)
U32Max == 2147483647
U16Mod == 65536
MaxSeconds == 16384
RouteNumPaths == 3

Nodes == 0 .. (NumNodes - 1)

Min(a, b) == IF a < b THEN a ELSE b
Max(a, b) == IF a < b THEN b ELSE a

(* An Option is a sequence of no element (None) or one (Some) *)
None == <<>>
Some(x) == <<x>>

(* RoadInteraction enum values of the schema, as the route service names them *)
RoadInteraction == {"None", "Yield", "StopSign", "TrafficLight"}

----------------------------------------------------------------------------
(* The graph blob, laid out as the builder lays it out *)

(* u16 left shift by two and or-ing of the flag bit, graphbuild lib.rs:497. *)
(* The shift drops the bits that leave the 16-bit word.                     *)
CostsAndFlags(drive_cost, backwards_allowed) ==
    ((drive_cost * 4) % U16Mod) + (IF backwards_allowed THEN 1 ELSE 0)

(* graphbuild lib.rs:481-494: the capped travel time of an edge *)
DriveCost(travel_cost) ==
    IF travel_cost > 0 THEN Min(Max(travel_cost, 1), MaxSeconds) ELSE MaxSeconds

(* One entry of edge_node_pairs, as the edge loop of graphbuild consumes it *)
EdgeOf(pair) ==
    [point_1_node_idx |-> pair.start_idx,
     point_2_node_idx |-> pair.end_idx,
     costs_and_flags  |-> CostsAndFlags(DriveCost(pair.travel_cost),
                                        pair.backwards_allowed)]

RECURSIVE AddEdgeRefs(_, _, _)
(* graphbuild lib.rs:529-543: in final edge order, edge k (0-based) is     *)
(* appended to the edge list of its start node and, if backwards_allowed,  *)
(* of its end node, with the interaction pair of that slot.                *)
AddEdgeRefs(pairs, k, nodes) ==
    IF k >= Len(pairs) THEN nodes
    ELSE
        LET p == pairs[k + 1]
            n1 == [nodes EXCEPT ![p.start_idx + 1] =
                     [edges |-> Append(@.edges, k),
                      interactions |-> Append(@.interactions,
                          [incoming |-> p.start_interaction,
                           outgoing |-> p.end_interaction])]]
            n2 == IF p.backwards_allowed
                  THEN [n1 EXCEPT ![p.end_idx + 1] =
                     [edges |-> Append(@.edges, k),
                      interactions |-> Append(@.interactions,
                          [incoming |-> p.end_interaction,
                           outgoing |-> p.start_interaction])]]
                  ELSE n1
        IN AddEdgeRefs(pairs, k + 1, n2)

(* The GraphBlob built from the sorted edge_node_pairs *)
BuildGraphBlob(pairs) ==
    [edges |-> [i \in 1 .. Len(pairs) |-> EdgeOf(pairs[i])],
     nodes |-> AddEdgeRefs(pairs, 0,
                  [n \in 1 .. NumNodes |-> [edges |-> <<>>, interactions |-> <<>>]])]

----------------------------------------------------------------------------
(* The route service, crates/server/src/route.rs *)

EmptyMap == [x \in {} |-> 0]

(* u32::saturating_add *)
SaturatingAdd(a, b) == IF a >= U32Max - b THEN U32Max ELSE a + b

Reverse(s) == [i \in 1 .. Len(s) |-> s[Len(s) + 1 - i]]

(* The right shift by three of calculate_edge_cost *)
EdgeCostShift(costs_and_flags) == costs_and_flags \div 8

calculate_edge_cost(graph_blob, edge_id) ==
    IF edge_id < Len(graph_blob.edges)
    THEN EdgeCostShift(graph_blob.edges[edge_id + 1].costs_and_flags)
    ELSE U32Max

(* Position (0-based) of the last occurrence of edge_id in node_edges, or -1 *)
LastPos(node_edges, edge_id) ==
    LET hits == {i \in 1 .. Len(node_edges) : node_edges[i] = edge_id}
    IN IF hits = {} THEN -1
       ELSE (CHOOSE i \in hits : \A j \in hits : j <= i) - 1

InteractionCostOf(outgoing) ==
    CASE outgoing = "None" -> 2
      [] outgoing = "Yield" -> 4
      [] outgoing = "StopSign" -> 8
      [] outgoing = "TrafficLight" -> 32
      [] OTHER -> 0

calculate_interaction_cost(graph_blob, node_idx, incoming_edge, outgoing_edge) ==
    IF node_idx < Len(graph_blob.nodes)
    THEN LET node == graph_blob.nodes[node_idx + 1]
             in_pos == LastPos(node.edges, incoming_edge)
             out_pos == LastPos(node.edges, outgoing_edge)
         IN IF in_pos >= 0 /\ out_pos >= 0 /\ in_pos < Len(node.interactions)
            THEN InteractionCostOf(node.interactions[in_pos + 1].outgoing)
            ELSE 2
    ELSE 2

(* The edge list cut after the first edge that is not edge_id *)
get_adjacent_edges_first_only(graph_blob, edge_id, node_idx) ==
    IF node_idx < Len(graph_blob.nodes)
    THEN LET others == SelectSeq(graph_blob.nodes[node_idx + 1].edges,
                                 LAMBDA e : e # edge_id)
         IN IF others = <<>> THEN <<>> ELSE <<others[1]>>
    ELSE <<>>

get_adjacent_edges(graph_blob, edge_id, node_idx) ==
    IF node_idx < Len(graph_blob.nodes)
    THEN SelectSeq(graph_blob.nodes[node_idx + 1].edges, LAMBDA e : e # edge_id)
    ELSE <<>>

RECURSIVE ReconstructWalk(_, _, _, _, _)
ReconstructWalk(start_edge_id, prev_info, current, path_edges, path_nodes) ==
    IF current = start_edge_id
    THEN [edges |-> Reverse(Append(path_edges, start_edge_id)),
          nodes |-> Reverse(path_nodes)]
    ELSE IF current \in DOMAIN prev_info
         THEN ReconstructWalk(start_edge_id, prev_info, prev_info[current][1],
                              Append(path_edges, current),
                              Append(path_nodes, prev_info[current][2]))
         ELSE [edges |-> <<>>, nodes |-> <<>>]

(* reconstruct_path without the final path_nodes.reverse() *)
reconstruct_path_nodes_unreversed(start_edge_id, end_edge_id, prev_info) ==
    LET r == ReconstructWalk(start_edge_id, prev_info, end_edge_id, <<>>, <<>>)
    IN [edges |-> r.edges, nodes |-> Reverse(r.nodes)]

(* reconstruct_path without the final push of the start edge *)
reconstruct_path_without_start(start_edge_id, end_edge_id, prev_info) ==
    LET r == ReconstructWalk(start_edge_id, prev_info, end_edge_id, <<>>, <<>>)
    IN [edges |-> IF r.edges = <<>> THEN <<>> ELSE Tail(r.edges), nodes |-> r.nodes]

(* route.rs:256-277 *)
reconstruct_path(start_edge_id, end_edge_id, prev_info) ==
    ReconstructWalk(start_edge_id, prev_info, end_edge_id, <<>>, <<>>)

(* BinaryHeap of (Reverse(cost), edge): pop yields the greatest tuple, that *)
(* is the least cost and, among equal costs, the greatest edge id.          *)
(* The heap without the Reverse wrapper: the greatest cost is popped first *)
HeapPopGreatestCost(pq) ==
    CHOOSE x \in pq : \A y \in pq :
        \/ x[1] > y[1]
        \/ x[1] = y[1] /\ x[2] >= y[2]

HeapPop(pq) ==
    CHOOSE x \in pq : \A y \in pq :
        \/ x[1] < y[1]
        \/ x[1] = y[1] /\ x[2] >= y[2]

(* The search without its avoid test *)
AvoidedNever(avoid_edges, next_edge, end_edge_id) == FALSE

(* route.rs:227: is next_edge skipped because it is to be avoided *)
Avoided(avoid_edges, next_edge, end_edge_id) ==
    next_edge \in avoid_edges /\ next_edge # end_edge_id

(* The test that keeps the cost an edge was first reached with *)
is_better_path_first_seen(distances, next_edge, next_cost) ==
    ~(next_edge \in DOMAIN distances)

(* route.rs:237-240: is next_cost below the cost recorded for next_edge *)
is_better_path(distances, next_edge, next_cost) ==
    IF next_edge \in DOMAIN distances
    THEN next_cost < distances[next_edge]
    ELSE TRUE

(* The loop body with the link of next_edge set to next_edge itself *)
RelaxLinkingToItself(graph_blob, end_edge_id, avoid_edges, cost, current_edge, node_idx, next_edge, st) ==
    IF Avoided(avoid_edges, next_edge, end_edge_id) THEN st
    ELSE
        LET next_cost ==
                SaturatingAdd(cost,
                    SaturatingAdd(calculate_edge_cost(graph_blob, next_edge),
                                  calculate_interaction_cost(graph_blob, node_idx,
                                                             current_edge, next_edge)))
        IN IF is_better_path(st.distances, next_edge, next_cost)
           THEN [st EXCEPT
                   !.distances = (next_edge :> next_cost) @@ @,
                   !.prev_info = (next_edge :> <<next_edge, node_idx>>) @@ @,
                   !.pq = @ \cup {<<next_cost, next_edge>>}]
           ELSE st

(* route.rs:226-246: the body of the inner loop for one next_edge *)
Relax(graph_blob, end_edge_id, avoid_edges, cost, current_edge, node_idx, next_edge, st) ==
    IF Avoided(avoid_edges, next_edge, end_edge_id) THEN st
    ELSE
        LET edge_cost == calculate_edge_cost(graph_blob, next_edge)
            interaction_cost ==
                calculate_interaction_cost(graph_blob, node_idx, current_edge, next_edge)
            cost_sum == SaturatingAdd(edge_cost, interaction_cost)
            next_cost == SaturatingAdd(cost, cost_sum)
        IN IF is_better_path(st.distances, next_edge, next_cost)
           THEN [st EXCEPT
                   !.distances = (next_edge :> next_cost) @@ @,
                   !.prev_info = (next_edge :> <<current_edge, node_idx>>) @@ @,
                   !.pq = @ \cup {<<next_cost, next_edge>>}]
           ELSE st

RECURSIVE RelaxAll(_, _, _, _, _, _, _, _)
(* The inner loop over the adjacent edges found through node_idx *)
RelaxAll(graph_blob, end_edge_id, avoid_edges, cost, current_edge, node_idx, adjacent, st) ==
    IF adjacent = <<>> THEN st
    ELSE RelaxAll(graph_blob, end_edge_id, avoid_edges, cost, current_edge, node_idx,
                  Tail(adjacent),
                  Relax(graph_blob, end_edge_id, avoid_edges, cost, current_edge,
                        node_idx, Head(adjacent), st))

(* route.rs:219-248: expansion of current_edge through node1, then node2 *)
Expand(graph_blob, end_edge_id, avoid_edges, cost, current_edge, st) ==
    LET edge == graph_blob.edges[current_edge + 1]
        node1 == edge.point_1_node_idx
        node2 == edge.point_2_node_idx
        st1 == RelaxAll(graph_blob, end_edge_id, avoid_edges, cost, current_edge, node1,
                        get_adjacent_edges(graph_blob, current_edge, node1), st)
    IN RelaxAll(graph_blob, end_edge_id, avoid_edges, cost, current_edge, node2,
                get_adjacent_edges(graph_blob, current_edge, node2), st1)

SearchInit(start_edge_id) ==
    [distances |-> (start_edge_id :> 0),
     prev_info |-> EmptyMap,
     pq |-> {<<0, start_edge_id>>},
     result |-> [kind |-> "Running"]]

(* One iteration of the while loop of find_shortest_path, route.rs:207-249.  *)
(* Vector::get of an index past the end of the edges vector panics.          *)
SearchStep(graph_blob, start_edge_id, end_edge_id, avoid_edges, st) ==
    IF st.pq = {} THEN [st EXCEPT !.result = [kind |-> "Err"]]
    ELSE
        LET top == HeapPop(st.pq)
            cost == top[1]
            current_edge == top[2]
            popped == [st EXCEPT !.pq = @ \ {top}]
        IN IF current_edge = end_edge_id
           THEN [popped EXCEPT !.result =
                    [kind |-> "Ok",
                     path |-> reconstruct_path(start_edge_id, end_edge_id, st.prev_info)]]
           ELSE IF current_edge \in DOMAIN st.distances /\ cost > st.distances[current_edge]
           THEN popped
           ELSE IF current_edge >= Len(graph_blob.edges)
           THEN [popped EXCEPT !.result = [kind |-> "Panic"]]
           ELSE Expand(graph_blob, end_edge_id, avoid_edges, cost, current_edge, popped)

RECURSIVE SearchLoop(_, _, _, _, _)
SearchLoop(graph_blob, start_edge_id, end_edge_id, avoid_edges, st) ==
    IF st.result.kind # "Running" THEN st.result
    ELSE SearchLoop(graph_blob, start_edge_id, end_edge_id, avoid_edges,
                    SearchStep(graph_blob, start_edge_id, end_edge_id, avoid_edges, st))

RECURSIVE SearchPops(_, _, _, _, _, _)
(* route.rs:207: the entries pq.pop() returns over the run, in order, each *)
(* with the queue it was popped from.                                      *)
SearchPops(graph_blob, start_edge_id, end_edge_id, avoid_edges, st, pops) ==
    IF st.result.kind # "Running" \/ st.pq = {} THEN pops
    ELSE SearchPops(graph_blob, start_edge_id, end_edge_id, avoid_edges,
                    SearchStep(graph_blob, start_edge_id, end_edge_id, avoid_edges, st),
                    Append(pops, [popped |-> HeapPop(st.pq), queued |-> st.pq]))

(* route.rs:181-254.  With no graph loaded the call fails at once. *)
find_shortest_path(data, start_edge_id, end_edge_id, avoid_edges) ==
    IF data = None THEN [kind |-> "Err"]
    ELSE SearchLoop(data[1], start_edge_id, end_edge_id, avoid_edges,
                    SearchInit(start_edge_id))

SeqRange(s) == {s[i] : i \in 1 .. Len(s)}

RECURSIVE MorePaths(_, _, _, _, _, _)
(* route.rs:158-175: the loop "for _ in 1..max_paths" *)
MorePaths(data, start_edge_id, end_edge_id, remaining, used_edges, result_paths) ==
    IF remaining <= 0 THEN [kind |-> "Ok", paths |-> result_paths]
    ELSE
        LET r == find_shortest_path(data, start_edge_id, end_edge_id, used_edges)
        IN CASE r.kind = "Panic" -> [kind |-> "Panic"]
             [] r.kind = "Err" -> [kind |-> "Ok", paths |-> result_paths]
             [] OTHER ->
                  IF r.path.edges = <<>>
                  THEN [kind |-> "Ok", paths |-> result_paths]
                  ELSE MorePaths(data, start_edge_id, end_edge_id, remaining - 1,
                                 used_edges \cup SeqRange(r.path.edges),
                                 Append(result_paths, r.path))

(* route.rs:140-178 *)
find_paths(data, start_edge_id, end_edge_id, max_paths) ==
    LET first == find_shortest_path(data, start_edge_id, end_edge_id, {})
    IN CASE first.kind = "Panic" -> [kind |-> "Panic"]
         [] first.kind = "Err" -> [kind |-> "Err"]
         [] OTHER -> MorePaths(data, start_edge_id, end_edge_id, max_paths - 1,
                               SeqRange(first.path.edges), <<first.path>>)

(* The number of paths the handler asks find_paths for, route.rs:297 *)
NumPathsUsed(req) == RouteNumPaths

(* The handler without its test *)
GraphNotLoadedUnchecked(data) == FALSE

(* route.rs:290: the handler's test that the graph was loaded *)
GraphNotLoaded(data) == data = None

(* The route handler, route.rs:282-310.  A panic of the handler is the       *)
(* outcome "panic"; the Status codes are "unavailable" and "internal".       *)
route(data, req) ==
    IF GraphNotLoaded(data)
    THEN [status |-> "unavailable", paths |-> <<>>, searched |-> FALSE]
    ELSE
        LET paths_info == find_paths(data, req.start_edge_idx, req.end_edge_idx,
                                     NumPathsUsed(req))
        IN CASE paths_info.kind = "Panic" ->
                  [status |-> "panic", paths |-> <<>>, searched |-> TRUE]
             [] paths_info.kind = "Err" ->
                  [status |-> "internal", paths |-> <<>>, searched |-> TRUE]
             [] OTHER ->
                  [status |-> "ok", paths |-> paths_info.paths, searched |-> TRUE]

----------------------------------------------------------------------------
(* The graphs the service is started on *)

NodePairs == {p \in Nodes \X Nodes : p[1] < p[2]}

(* Travel time in seconds of the way joining nodes a and b: the nodes lie  *)
(* at equal intervals along a road, and the time grows with the distance.  *)
SecondsPerInterval == 8
TravelSeconds(a, b) == SecondsPerInterval * (b - a)

(* The sort key of an edge, graphbuild lib.rs:470: the cell of the midpoint *)
(* of its two nodes (here twice the midpoint's position).                   *)
MidpointKey(p) == p[1] + p[2]

(* The orders the stable sort by midpoint cell can leave the edges S in *)
EdgeOrders(S) ==
    {f \in [1 .. Cardinality(S) -> S] :
        /\ \A i, j \in DOMAIN f : i # j => f[i] # f[j]
        /\ \A i, j \in DOMAIN f : i < j => MidpointKey(f[i]) <= MidpointKey(f[j])}

Signal(lights, n) == IF n \in lights THEN "TrafficLight" ELSE "None"

(* How the way an edge is built from runs between the edge's two nodes:    *)
(* "twoway" and "oneway" run from the lower to the higher node index (the  *)
(* canonical direction), "against" runs from the higher to the lower one.  *)
WayKinds == {"twoway", "oneway", "against"}

(* graphbuild lib.rs:424-441: allows_canonical_backward of a segment.  A    *)
(* segment that runs against the canonical direction allows it, tagged     *)
(* oneway or not.                                                          *)
AllowsCanonicalBackward(kind) == kind # "oneway"

(* The assignments of ways to n edges with at most MaxDirected edges that  *)
(* are not plain two-way roads laid in the canonical direction.            *)
WayAssignments(n) ==
    {w \in [1 .. n -> WayKinds] :
        Cardinality({i \in 1 .. n : w[i] # "twoway"}) <= MaxDirected}

(* edge_node_pairs after the sort, graphbuild lib.rs:408-470: the key is   *)
(* (min, max) of the node indices, the interactions are those of the       *)
(* segment's own start and end node.                                       *)
EdgeNodePairs(order, ways, lights) ==
    [i \in DOMAIN order |->
        LET lo == order[i][1]
            hi == order[i][2]
            seg_start == IF ways[i] = "against" THEN hi ELSE lo
            seg_end == IF ways[i] = "against" THEN lo ELSE hi
        IN [start_idx |-> lo,
            end_idx |-> hi,
            travel_cost |-> TravelSeconds(lo, hi),
            backwards_allowed |-> AllowsCanonicalBackward(ways[i]),
            start_interaction |-> Signal(lights, seg_start),
            end_interaction |-> Signal(lights, seg_end)]]

GraphsWithLights(max_lights) ==
    UNION {{BuildGraphBlob(EdgeNodePairs(order, ways, lights)) :
                ways \in WayAssignments(Len(order)),
                lights \in {L \in SUBSET Nodes : Cardinality(L) <= max_lights}} :
           order \in UNION {EdgeOrders(S) :
                   S \in {T \in SUBSET NodePairs : Cardinality(T) <= MaxEdges}}}

GraphBlobs == GraphsWithLights(MaxLights)

(* The num_paths field of RouteRequest: the number of paths asked for *)
RequestedNumPaths == 1 .. MaxK

(* The requests a client sends: any edge index up to the first invalid one *)
RouteRequests(data) ==
    LET top == IF data = None THEN 1 ELSE Len(data[1].edges)
    IN [start_edge_idx : 0 .. top, end_edge_idx : 0 .. top,
        num_paths : RequestedNumPaths]

----------------------------------------------------------------------------
(* The route service as a state machine *)

(* main.rs:44-51: the service holds the loaded graph, or none when loading *)
(* failed.                                                                 *)
Init ==
    /\ graph_data \in {Some(g) : g \in GraphBlobs} \cup {None}
    /\ request = None
    /\ response = None
    /\ config = None
    /\ location_blob = None
    /\ outer_buckets = None
    /\ snap_files = None
    /\ snap_buckets = None
    /\ osm = None
    /\ built = None
    /\ search = None

(* The handler serves one request to completion *)
Route ==
    /\ request = None
    /\ \E req \in RouteRequests(graph_data) :
          /\ request' = Some(req)
          /\ response' = Some(route(graph_data, req))
    /\ UNCHANGED <<graph_data, config, location_blob, outer_buckets, snap_files,
                   snap_buckets>>
    /\ UNCHANGED build_vars
    /\ UNCHANGED search

(* The response is written to the client and the handler is free again *)
Reply ==
    /\ request # None
    /\ request' = None
    /\ response' = None
    /\ UNCHANGED <<graph_data, config, location_blob, outer_buckets, snap_files,
                   snap_buckets>>
    /\ UNCHANGED build_vars
    /\ UNCHANGED search

Next == Route \/ Reply

Spec == Init /\ [][Next]_vars

----------------------------------------------------------------------------
(* Cell ids.  An S2 cell id is the position of the cell along the curve,   *)
(* two bits per level, followed by a one bit and zeros; the model keeps    *)
(* that layout over MaxLevel levels (S2 has 30) and one face, so a word    *)
(* has 2 * MaxLevel + 1 bits.                                              *)

CellMod == 2 ^ (2 * MaxLevel + 1)

LsbForLevel(level) == 4 ^ (MaxLevel - level)

(* CellID::parent: (id & -lsb) | lsb *)
parent_cell_id(cell_id, level) ==
    LET lsb == LsbForLevel(level)
    IN (cell_id \div (2 * lsb)) * (2 * lsb) + lsb

RECURSIVE SpreadPositions(_)
(* Leaf positions whose every base-4 digit is 0 or 2 *)
SpreadPositions(level) ==
    IF level = 0 THEN {0}
    ELSE {4 * q + d : q \in SpreadPositions(level - 1), d \in {0, 2}}

(* The leaf cells nodes are placed in *)
NodeCells == {2 * q + 1 : q \in SpreadPositions(MaxLevel)}

----------------------------------------------------------------------------
(* The snap index builder, crates/snapbuild/src/lib.rs *)

EmptyBucket(inner_cell_id) ==
    [cell_id |-> inner_cell_id, edge_cell_ids |-> <<>>, edge_indexes |-> <<>>]

(* HashMap::entry(k).or_insert_with(v) *)
OrInsert(map, k, v) == IF k \in DOMAIN map THEN map ELSE (k :> v) @@ map

(* The other end of the edge as snapbuild computes it, lib.rs:161-165 *)
TargetNodeIdx(edge, i) ==
    IF edge.point_1_node_idx = i THEN edge.point_2_node_idx
    ELSE edge.point_1_node_idx

(* Is edge_index, found in the edge list of node i, to be filed.  The code *)
(* files every edge of the list whose index and target node are in range.  *)
FilesEdge(graph_blob, node_locations, i, edge_index) ==
    /\ edge_index < Len(graph_blob.edges)
    /\ TargetNodeIdx(graph_blob.edges[edge_index + 1], i) < Len(node_locations)

RECURSIVE PushNodeEdges(_, _, _, _, _)
(* lib.rs:153-177: the loop over the edges of node i, pushing into the     *)
(* inner bucket of node i the cell of the edge's other end and its index.  *)
PushNodeEdges(graph_blob, node_locations, i, edges, bucket) ==
    IF edges = <<>> THEN bucket
    ELSE
        LET edge_index == Head(edges)
            pushed ==
                IF FilesEdge(graph_blob, node_locations, i, edge_index)
                THEN LET target == TargetNodeIdx(graph_blob.edges[edge_index + 1], i)
                     IN [bucket EXCEPT
                           !.edge_cell_ids = Append(@, node_locations[target + 1]),
                           !.edge_indexes = Append(@, edge_index)]
                ELSE bucket
        IN PushNodeEdges(graph_blob, node_locations, i, Tail(edges), pushed)

RECURSIVE ProcessNodes(_, _, _, _, _, _)
(* lib.rs:134-181: the loop over the node locations *)
ProcessNodes(graph_blob, node_locations, outer_level, inner_level, i, outer) ==
    IF i >= Len(node_locations) THEN outer
    ELSE
        LET cell_id == node_locations[i + 1]
            outer_cell_id == parent_cell_id(cell_id, outer_level)
            inner_cell_id == parent_cell_id(cell_id, inner_level)
            inner == OrInsert(outer[outer_cell_id].inner_buckets, inner_cell_id,
                              EmptyBucket(inner_cell_id))
            bucket ==
                IF i < Len(graph_blob.nodes)
                THEN PushNodeEdges(graph_blob, node_locations, i,
                                   graph_blob.nodes[i + 1].edges, inner[inner_cell_id])
                ELSE inner[inner_cell_id]
        IN ProcessNodes(graph_blob, node_locations, outer_level, inner_level, i + 1,
                        [outer EXCEPT ![outer_cell_id].inner_buckets =
                            [inner EXCEPT ![inner_cell_id] = bucket]])

(* lib.rs:186-210: the inner cell ids the code makes up for an outer cell; *)
(* the shift is that of a machine word.                                    *)
AllInnerCellIds(outer_cell_id, outer_level, inner_level) ==
    LET num_cells_per_side == 2 ^ (inner_level - outer_level)
        total_inner_cells == num_cells_per_side * num_cells_per_side
    IN {((outer_cell_id * (2 ^ ((inner_level - outer_level) * 2))) % CellMod) + i :
            i \in 0 .. (total_inner_cells - 1)}

(* Map a bucket for every made-up inner cell id that has none *)
EnsureInner(inner_buckets, ids) ==
    [c \in DOMAIN inner_buckets \cup ids |->
        IF c \in DOMAIN inner_buckets THEN inner_buckets[c] ELSE EmptyBucket(c)]

(* lib.rs:102-213 *)
build_outer_buckets(graph_blob, node_locations, outer_level, inner_level) ==
    LET all_outer_cell_ids ==
            {parent_cell_id(node_locations[k], outer_level) :
                k \in 1 .. Len(node_locations)}
        initial == [o \in all_outer_cell_ids |->
                       [cell_id |-> o, inner_buckets |-> EmptyMap]]
        filled == ProcessNodes(graph_blob, node_locations, outer_level, inner_level,
                               0, initial)
    IN [o \in DOMAIN filled |->
           [filled[o] EXCEPT !.inner_buckets =
               EnsureInner(@, AllInnerCellIds(filled[o].cell_id, outer_level,
                                              inner_level))]]

RECURSIVE SortedByCellId(_, _)
(* sort_by_key(|b| b.cell_id) of the buckets of a map keyed by cell id *)
SortedByCellId(inner_buckets, ids) ==
    IF ids = {} THEN <<>>
    ELSE LET least == CHOOSE c \in ids : \A d \in ids : c <= d
         IN <<inner_buckets[least]>> \o SortedByCellId(inner_buckets, ids \ {least})

(* lib.rs:216-277: one file per outer bucket, holding its inner buckets *)
(* sorted by cell id.                                                   *)
write_snap_buckets(outer) ==
    [o \in DOMAIN outer |->
        SortedByCellId(outer[o].inner_buckets, DOMAIN outer[o].inner_buckets)]

----------------------------------------------------------------------------
(* The snap service, crates/server/src/snap.rs *)

WordBits == 2 * MaxLevel + 1

RECURSIVE Digits(_, _)
(* The n low binary digits of v, most significant first *)
Digits(v, n) ==
    IF n = 0 THEN <<>> ELSE Append(Digits(v \div 2, n - 1), v % 2)

RECURSIVE StripZeros(_)
StripZeros(d) ==
    IF d # <<>> /\ d[Len(d)] = 0 THEN StripZeros(SubSeq(d, 1, Len(d) - 1)) ELSE d

(* The token "X" of the id 0, a one-letter token that is no digit *)
TokenX == <<-1>>

(* CellID::to_token: the digits of the id without the trailing zeros, "X"  *)
(* for the id 0 (S2 writes hexadecimal digits, the model binary ones).     *)
to_token(cell_id) ==
    IF cell_id = 0 THEN TokenX ELSE StripZeros(Digits(cell_id, WordBits))

RECURSIVE DigitsValue(_)
DigitsValue(d) ==
    IF d = <<>> THEN 0 ELSE 2 * DigitsValue(SubSeq(d, 1, Len(d) - 1)) + d[Len(d)]

(* CellID::from_token: the digits shifted back to the top of the word; a   *)
(* token that is no digit string, or too long, gives the id 0.             *)
from_token(token) ==
    IF token = TokenX \/ Len(token) > WordBits THEN 0
    ELSE DigitsValue(token) * (2 ^ (WordBits - Len(token)))

(* snap.rs:46-76: the files of the directory keyed by the cell id their    *)
(* names parse to.                                                         *)
LoadSnapBuckets(files) ==
    LET keys == {from_token(to_token(o)) : o \in DOMAIN files}
    IN [k \in keys |->
           files[CHOOSE o \in DOMAIN files : from_token(to_token(o)) = k]]

(* A coordinate is a leaf cell and a place in it: 0 is the cell's centre *)
Places == {0, 1}
LeafCells == {2 * q + 1 : q \in 0 .. ((CellMod \div 2) - 1)}
LatLngs == [cell : LeafCells, place : Places]

(* CellID::from(LatLng): the leaf cell the coordinate lies in *)
CellFromLatLng(lat_lng) == lat_lng.cell

(* LatLng::from(Cell::from(cell_id).center()) *)
CellCenter(cell_id) == [cell |-> cell_id, place |-> 0]

(* u64 subtraction where the result would be negative: the word wraps *)
WrappingSub(a, b) == (a - b + CellMod) % CellMod

RECURSIVE BinarySearch(_, _, _, _)
(* snap.rs:113-124, left and right 0-based as in the code.  mid - 1 with   *)
(* mid = 0 panics with overflow checks; without them right wraps to the    *)
(* greatest usize and the next get(mid) is out of range, which panics.     *)
BinarySearch(edge_cell_ids, target_cell_id, left, right) ==
    IF left > right THEN [kind |-> "NotFound", left |-> left]
    ELSE
        LET mid == left + ((right - left) \div 2)
            mid_cell_id == edge_cell_ids[mid + 1]
        IN IF mid_cell_id = target_cell_id THEN [kind |-> "Found", mid |-> mid]
           ELSE IF mid_cell_id < target_cell_id
                THEN BinarySearch(edge_cell_ids, target_cell_id, mid + 1, right)
                ELSE IF mid = 0 THEN [kind |-> "Panic"]
                     ELSE BinarySearch(edge_cell_ids, target_cell_id, left, mid - 1)

Found(edge_index, edge_cell_id) ==
    [kind |-> "Some", edge_index |-> edge_index, edge_cell_id |-> edge_cell_id]

(* snap.rs:132-139: the choice between the two neighbours of the insertion *)
(* point.  Both differences are u64 subtractions: with overflow checks a   *)
(* negative one panics, without them it wraps.                             *)
CloserNeighbour(snap_bucket, target_cell_id, left, overflow_checks) ==
    LET left_pos == IF left > 0 THEN left - 1 ELSE 0
        cell_id_left == snap_bucket.edge_cell_ids[left_pos + 1]
        cell_id_right == snap_bucket.edge_cell_ids[left + 1]
    IN IF overflow_checks
          /\ (target_cell_id < cell_id_left \/ target_cell_id < cell_id_right)
       THEN [kind |-> "Panic"]
       ELSE IF WrappingSub(target_cell_id, cell_id_left)
                 < WrappingSub(target_cell_id, cell_id_right)
            THEN Found(snap_bucket.edge_indexes[left_pos + 1], cell_id_left)
            ELSE Found(snap_bucket.edge_indexes[left + 1], cell_id_right)

(* snap.rs:88-143 *)
find_closest_edge(snap_bucket, target_cell_id, overflow_checks) ==
    LET edge_cell_ids == snap_bucket.edge_cell_ids
        edge_indexes == snap_bucket.edge_indexes
        len == Len(edge_cell_ids)
    IN IF len = 0 THEN [kind |-> "None"]
       ELSE IF len = 1 THEN Found(edge_indexes[1], edge_cell_ids[1])
       ELSE IF target_cell_id <= edge_cell_ids[1]
            THEN Found(edge_indexes[1], edge_cell_ids[1])
       ELSE IF target_cell_id >= edge_cell_ids[len]
            THEN Found(edge_indexes[len], edge_cell_ids[len])
       ELSE
           LET r == BinarySearch(edge_cell_ids, target_cell_id, 0, len - 1)
           IN CASE r.kind = "Found" -> Found(edge_indexes[r.mid + 1], edge_cell_ids[r.mid + 1])
                [] r.kind = "Panic" -> [kind |-> "Panic"]
                [] OTHER ->
                     CloserNeighbour(snap_bucket, target_cell_id,
                                     IF r.left >= len THEN len - 1 ELSE r.left,
                                     overflow_checks)

(* The answer with the request's own coordinate, centred on its cell *)
UnsnappedAtCenter(req) ==
    [status |-> "ok", edge_index |-> 0, lat_lng |-> CellCenter(CellFromLatLng(req.lat_lng))]

(* snap.rs:223-231: the answer when nothing was found *)
Unsnapped(req) == [status |-> "ok", edge_index |-> 0, lat_lng |-> req.lat_lng]

(* snap.rs:185-187: the first bucket of the file whose cell id is inner_cell_id *)
BucketFor(buckets, inner_cell_id) ==
    LET hits == {i \in 1 .. Len(buckets) : buckets[i].cell_id = inner_cell_id}
    IN IF hits = {} THEN None
       ELSE Some(buckets[CHOOSE i \in hits : \A j \in hits : i <= j])

(* snap.rs:148-232 *)
get_snap(loaded, outer_cell_level, inner_cell_level, req, overflow_checks) ==
    LET cell_id == CellFromLatLng(req.lat_lng)
        outer_cell_id == parent_cell_id(cell_id, outer_cell_level)
        inner_cell_id == parent_cell_id(cell_id, inner_cell_level)
    IN IF outer_cell_id \in DOMAIN loaded
       THEN LET snap_bucket == BucketFor(loaded[outer_cell_id], inner_cell_id)
            IN IF snap_bucket = None THEN Unsnapped(req)
               ELSE LET r == find_closest_edge(snap_bucket[1], cell_id, overflow_checks)
                    IN CASE r.kind = "Some" ->
                              [status |-> "ok", edge_index |-> r.edge_index,
                               lat_lng |-> CellCenter(r.edge_cell_id)]
                         [] r.kind = "Panic" ->
                              [status |-> "panic", edge_index |-> 0,
                               lat_lng |-> req.lat_lng]
                         [] OTHER -> Unsnapped(req)
       ELSE Unsnapped(req)

----------------------------------------------------------------------------
(* The snap index builder as a state machine: process() of snapbuild reads *)
(* the graph and location blobs, builds the buckets and writes the files.  *)

(* node_location_items: the nodes are indexed in the order of their cells *)
NodeLocations ==
    {l \in [1 .. NumNodes -> NodeCells] : \A i, j \in 1 .. NumNodes : i < j => l[i] <= l[j]}

Configs ==
    {c \in [outer_cell_level : 0 .. MaxLevel, inner_cell_level : 0 .. MaxLevel] :
        c.outer_cell_level < c.inner_cell_level}

SnapInit ==
    /\ graph_data \in {Some(g) : g \in GraphsWithLights(0)}
    /\ location_blob \in {Some(l) : l \in NodeLocations}
    /\ config \in {Some(c) : c \in Configs}
    /\ outer_buckets = None
    /\ snap_files = None
    /\ snap_buckets = None
    /\ request = None
    /\ response = None
    /\ osm = None
    /\ built = None
    /\ search = None

BuildOuterBuckets ==
    /\ outer_buckets = None
    /\ outer_buckets' = Some(build_outer_buckets(graph_data[1], location_blob[1],
                                                 config[1].outer_cell_level,
                                                 config[1].inner_cell_level))
    /\ UNCHANGED <<graph_data, request, response, config, location_blob, snap_files,
                   snap_buckets>>
    /\ UNCHANGED build_vars
    /\ UNCHANGED search

WriteSnapBuckets ==
    /\ outer_buckets # None
    /\ snap_files = None
    /\ snap_files' = Some(write_snap_buckets(outer_buckets[1]))
    /\ UNCHANGED <<graph_data, request, response, config, location_blob, outer_buckets,
                   snap_buckets>>
    /\ UNCHANGED build_vars
    /\ UNCHANGED search

(* MySnapService::new: the service is started on the directory snapbuild *)
(* wrote, at the same two levels.                                        *)
LoadSnapService ==
    /\ snap_files # None
    /\ snap_buckets = None
    /\ snap_buckets' = Some(LoadSnapBuckets(snap_files[1]))
    /\ UNCHANGED <<graph_data, request, response, config, location_blob, outer_buckets,
                   snap_files>>
    /\ UNCHANGED build_vars
    /\ UNCHANGED search

(* get_snap serves one request to completion.  The service is built with   *)
(* or without overflow checks (debug or release profile).                  *)
GetSnap ==
    /\ snap_buckets # None
    /\ request = None
    /\ \E lat_lng \in LatLngs, overflow_checks \in BOOLEAN :
          /\ request' = Some([lat_lng |-> lat_lng])
          /\ response' = Some(get_snap(snap_buckets[1], config[1].outer_cell_level,
                                       config[1].inner_cell_level,
                                       [lat_lng |-> lat_lng], overflow_checks))
    /\ UNCHANGED <<graph_data, config, location_blob, outer_buckets, snap_files,
                   snap_buckets>>
    /\ UNCHANGED build_vars
    /\ UNCHANGED search

SnapReply ==
    /\ snap_buckets # None
    /\ request # None
    /\ request' = None
    /\ response' = None
    /\ UNCHANGED <<graph_data, config, location_blob, outer_buckets, snap_files,
                   snap_buckets>>
    /\ UNCHANGED build_vars
    /\ UNCHANGED search

SnapNext ==
    \/ BuildOuterBuckets
    \/ WriteSnapBuckets
    \/ LoadSnapService
    \/ GetSnap
    \/ SnapReply

SnapSpec == SnapInit /\ [][SnapNext]_vars

----------------------------------------------------------------------------
(* The graph builder, osm_to_graph_blob of crates/graphbuild/src/lib.rs *)

OsmNodeIds == 1 .. NumOsmNodes

(* The node lists of a way: no node twice in a row *)
WayNodeLists ==
    {l \in UNION {[1 .. n -> OsmNodeIds] : n \in 2 .. MaxWayLen} :
        \A i \in 1 .. (Len(l) - 1) : l[i] # l[i + 1]}

(* The time in seconds a car takes per unit of distance on a way, from the *)
(* speed the way's highway and maxspeed tags give (lib.rs:187-258): a fast *)
(* road, and one so slow that every edge of it exceeds the cap.            *)
Paces == {1, MaxSeconds}

Ways == [nodes : WayNodeLists, is_oneway : BOOLEAN, pace : Paces]

RECURSIVE ListCode(_)
ListCode(l) ==
    IF l = <<>> THEN 0 ELSE l[Len(l)] + (NumOsmNodes + 1) * ListCode(SubSeq(l, 1, Len(l) - 1))

(* A number per way, to list the ways of an input in one order only: the   *)
(* ways are held in a hash map, so the ids they carry decide nothing.      *)
WayCode(w) ==
    (2 * ListCode(w.nodes) + (IF w.is_oneway THEN 1 ELSE 0)) * 2
        + (IF w.pace = 1 THEN 0 ELSE 1)

(* The leaf cells the nodes of the data lie in *)
OsmCells == {1, 5}

(* ways: way id -> Way; cells: node id -> the leaf cell of the node's      *)
(* coordinate; signals: the nodes tagged highway=traffic_signals; present: *)
(* the node ids the data holds a node for (all of them, here).  Node       *)
(* ids are keys only, so the nodes are numbered in the order of their      *)
(* cells, the first of them in the first cell.                             *)
OsmInputs ==
    [ways : {ws \in UNION {[1 .. n -> Ways] : n \in 1 .. MaxWays} :
                \A i \in 1 .. (Len(ws) - 1) : WayCode(ws[i]) <= WayCode(ws[i + 1])},
     cells : {c \in [OsmNodeIds -> OsmCells] :
                /\ \A i, j \in OsmNodeIds : i < j => c[i] <= c[j]
                /\ \A x \in OsmCells : c[1] <= x},
     signals : {L \in SUBSET OsmNodeIds : Cardinality(L) <= MaxLights},
     present : {OsmNodeIds}]

(* lib.rs:121-129: the ways a node lies on *)
NodeWays(input, node_id) ==
    {w \in DOMAIN input.ways :
        \E i \in 1 .. Len(input.ways[w].nodes) : input.ways[w].nodes[i] = node_id}

(* lib.rs:134-167: nodes where ways meet, and the first and last node of   *)
(* every way, if the data holds the node.                                  *)
Intersections(input) ==
    {n \in input.present :
        \/ Cardinality(NodeWays(input, n)) > 1
        \/ \E w \in NodeWays(input, n) :
              \/ input.ways[w].nodes[1] = n
              \/ input.ways[w].nodes[Len(input.ways[w].nodes)] = n}

(* lib.rs:262-280: the interaction of a node from its highway tag *)
InteractionOf(input, node_id) ==
    IF node_id \in input.present /\ node_id \in input.signals THEN "TrafficLight" ELSE "None"

(* lib.rs:174-302: the road segment of way way_id.  Its points are those  *)
(* of the nodes the data holds (lib.rs:283-286).                           *)
RoadSegment(input, way_id) ==
    LET way == input.ways[way_id]
        held == SelectSeq(way.nodes, LAMBDA n : n \in input.present)
    IN [id |-> way_id,
        nodes |-> way.nodes,
        points |-> [i \in 1 .. Len(held) |-> input.cells[held[i]]],
        pace |-> way.pace,
        is_oneway |-> way.is_oneway,
        interactions |-> [n \in SeqRange(way.nodes) |-> InteractionOf(input, n)]]

(* The orders a hash map or set with the keys S is iterated in *)
HashOrders(S) ==
    {f \in [1 .. Cardinality(S) -> S] : \A i, j \in DOMAIN f : i # j => f[i] # f[j]}

RECURSIVE LexLeq(_, _)
(* The order of strings: s <= t *)
LexLeq(s, t) ==
    IF s = <<>> THEN TRUE
    ELSE IF t = <<>> THEN FALSE
    ELSE IF s[1] # t[1] THEN s[1] < t[1]
    ELSE LexLeq(Tail(s), Tail(t))

(* The order of the sort keys, CellID::to_token() *)
TokenLeq(a, b) == LexLeq(to_token(a), to_token(b))

(* lib.rs:310-313: intersections_vec, the intersections in hash order      *)
(* sorted (stably) by the token of their cell: any order of them that is   *)
(* sorted by token.                                                        *)
IntersectionOrders(input) ==
    {f \in HashOrders(Intersections(input)) :
        \A i, j \in DOMAIN f : i < j => TokenLeq(input.cells[f[i]], input.cells[f[j]])}

(* lib.rs:318-321: node_id_to_index *)
NodeIdToIndex(intersections_vec) ==
    [n \in SeqRange(intersections_vec) |->
        (CHOOSE i \in DOMAIN intersections_vec : intersections_vec[i] = n) - 1]

(* lib.rs:337-341: the (position, node id) pairs of the segment's          *)
(* intersection nodes, positions 0-based.                                  *)
IntersectionNodes(segment, intersections) ==
    LET indexed == [i \in 1 .. Len(segment.nodes) |-> <<i - 1, segment.nodes[i]>>]
    IN SelectSeq(indexed, LAMBDA x : x[2] \in intersections)

(* Distance of two coordinates, in units of a leaf cell *)
Distance(cell_a, cell_b) ==
    LET a == cell_a \div 2
        b == cell_b \div 2
    IN IF a < b THEN b - a ELSE a - b

(* lib.rs:374-379: the leaf cell of the midpoint of two coordinates *)
MidpointCell(cell_a, cell_b) == 2 * (((cell_a \div 2) + (cell_b \div 2)) \div 2) + 1

(* A key that keeps the direction of the segment *)
edge_key_as_run(start_idx, end_idx) == <<start_idx, end_idx>>

(* lib.rs:409-414: the canonical key, smaller node index first *)
edge_key(start_idx, end_idx) ==
    IF start_idx < end_idx THEN <<start_idx, end_idx>> ELSE <<end_idx, start_idx>>

(* The flag of a one-way tag alone, whichever way the segment runs *)
allows_backward_by_tag(is_canonical_forward, is_oneway) == ~is_oneway

(* lib.rs:425 *)
allows_canonical_forward(is_canonical_forward, is_oneway) ==
    IF is_canonical_forward THEN TRUE ELSE ~is_oneway

(* lib.rs:426 *)
allows_canonical_backward(is_canonical_forward, is_oneway) ==
    IF is_canonical_forward THEN ~is_oneway ELSE TRUE

(* lib.rs:346-441: the edge of one window of a segment, put into edge_map. *)
(* A window of one node index at both ends is skipped.                     *)
InsertWindow(input, segment, node_id_to_index, start, end, edge_map) ==
    LET start_idx == node_id_to_index[start[2]]
        end_idx == node_id_to_index[end[2]]
        slice == SubSeq(segment.points, start[1] + 1, end[1] + 1)
        is_canonical_forward == start_idx < end_idx
        key == edge_key(start_idx, end_idx)
        fresh ==
            [cell_id |-> MidpointCell(input.cells[start[2]], input.cells[end[2]]),
             travel_cost |-> Distance(slice[1], slice[Len(slice)]) * segment.pace,
             allows_forward |-> FALSE,
             allows_backward |-> FALSE,
             start_interaction |-> segment.interactions[start[2]],
             end_interaction |-> segment.interactions[end[2]],
             points |-> IF is_canonical_forward THEN slice ELSE Reverse(slice)]
        entry == IF key \in DOMAIN edge_map THEN edge_map[key] ELSE fresh
        updated ==
            [entry EXCEPT
                !.allows_forward =
                    @ \/ allows_canonical_forward(is_canonical_forward, segment.is_oneway),
                !.allows_backward =
                    @ \/ allows_canonical_backward(is_canonical_forward, segment.is_oneway)]
    IN IF start_idx = end_idx THEN edge_map
       ELSE [k \in DOMAIN edge_map \cup {key} |-> IF k = key THEN updated ELSE edge_map[k]]

RECURSIVE InsertWindows(_, _, _, _, _, _)
(* lib.rs:344: the windows of two consecutive intersection nodes, from i on *)
InsertWindows(input, segment, node_id_to_index, inodes, i, edge_map) ==
    IF i >= Len(inodes) THEN edge_map
    ELSE InsertWindows(input, segment, node_id_to_index, inodes, i + 1,
                       InsertWindow(input, segment, node_id_to_index,
                                    inodes[i], inodes[i + 1], edge_map))

RECURSIVE InsertSegments(_, _, _, _, _)
(* lib.rs:335-445: the loop over road_segments *)
InsertSegments(input, road_segments, node_id_to_index, i, edge_map) ==
    IF i > Len(road_segments) THEN edge_map
    ELSE InsertSegments(input, road_segments, node_id_to_index, i + 1,
             InsertWindows(input, road_segments[i], node_id_to_index,
                           IntersectionNodes(road_segments[i], DOMAIN node_id_to_index),
                           1, edge_map))

(* lib.rs:455-464: the entry of edge_node_pairs made from one of edge_map *)
EdgeNodePair(edge_map, key) ==
    [start_idx |-> key[1],
     end_idx |-> key[2],
     cell_id |-> edge_map[key].cell_id,
     travel_cost |-> edge_map[key].travel_cost,
     backwards_allowed |-> edge_map[key].allows_backward,
     start_interaction |-> edge_map[key].start_interaction,
     end_interaction |-> edge_map[key].end_interaction,
     points |-> edge_map[key].points]

(* lib.rs:455-470: edge_node_pairs, the entries of edge_map in hash order  *)
(* sorted (stably) by the token of their cell.                             *)
EdgeNodePairOrders(edge_map) ==
    {[i \in DOMAIN f |-> EdgeNodePair(edge_map, f[i])] :
        f \in {g \in HashOrders(DOMAIN edge_map) :
                 \A i, j \in DOMAIN g : i < j =>
                     TokenLeq(edge_map[g[i]].cell_id, edge_map[g[j]].cell_id)}}

RECURSIVE InsertSorted(_, _)
(* x put into the sorted sequence after every element not greater than it *)
InsertSorted(sorted, x) ==
    IF sorted = <<>> THEN <<x>>
    ELSE IF TokenLeq(sorted[Len(sorted)].cell_id, x.cell_id) THEN Append(sorted, x)
    ELSE Append(InsertSorted(SubSeq(sorted, 1, Len(sorted) - 1), x), sorted[Len(sorted)])

RECURSIVE SortFrom(_, _, _)
SortFrom(items, i, sorted) ==
    IF i > Len(items) THEN sorted
    ELSE SortFrom(items, i + 1, InsertSorted(sorted, items[i]))

(* A sort by cell token that puts equal tokens in the opposite order *)
sort_by_cell_token_reversing(items) ==
    Reverse(SortFrom(Reverse(items), 1, <<>>))

(* par_sort_by_key by cell token, a stable sort *)
sort_by_cell_token(items) == SortFrom(items, 1, <<>>)

(* lib.rs:476-677: the edges, the nodes with their edge references, the    *)
(* final sort of the nodes, and the two blobs.                             *)
EmitBlobs(input, intersections_vec, edge_node_pairs) ==
    LET refs == AddEdgeRefs(edge_node_pairs, 0,
                    [i \in 1 .. Len(intersections_vec) |->
                        [edges |-> <<>>, interactions |-> <<>>]])
        nodes_with_edges ==
            sort_by_cell_token(
                [i \in 1 .. Len(intersections_vec) |->
                    [node_id |-> intersections_vec[i],
                     cell_id |-> input.cells[intersections_vec[i]],
                     edges |-> refs[i].edges,
                     interactions |-> refs[i].interactions]])
    IN [intersections_vec |-> intersections_vec,
        edge_node_pairs |-> edge_node_pairs,
        nodes_with_edges |-> nodes_with_edges,
        graph |->
            [edges |-> [i \in 1 .. Len(edge_node_pairs) |-> EdgeOf(edge_node_pairs[i])],
             nodes |-> [i \in 1 .. Len(nodes_with_edges) |->
                          [edges |-> nodes_with_edges[i].edges,
                           interactions |-> nodes_with_edges[i].interactions]]],
        location |->
            [node_location_items |->
                 [i \in 1 .. Len(nodes_with_edges) |-> nodes_with_edges[i].cell_id],
             edge_location_items |->
                 [i \in 1 .. Len(edge_node_pairs) |-> edge_node_pairs[i].points]]]

(* lib.rs:174-302: road_segments, for the ways in the order way_order; a   *)
(* way of fewer than two points is skipped (lib.rs:289-292).               *)
RoadSegments(input, way_order) ==
    SelectSeq([i \in DOMAIN way_order |-> RoadSegment(input, way_order[i])],
              LAMBDA segment : Len(segment.points) >= 2)

(* lib.rs:354-356: the slice points[start_pos ..= end_pos] of some window  *)
(* of the segment that is not skipped ends past the point list, and the    *)
(* slicing panics.                                                         *)
SliceOutOfRange(segment, intersections) ==
    LET inodes == IntersectionNodes(segment, intersections)
    IN \E i \in 1 .. (Len(inodes) - 1) :
          /\ inodes[i][2] # inodes[i + 1][2]
          /\ inodes[i + 1][1] >= Len(segment.points)

(* The outcome of a run that panicked *)
Panicked == [panic |-> TRUE]

(* lib.rs:76-678: the results the builder can give on one input, one per   *)
(* order in which its hash maps are iterated.                              *)
osm_to_graph_blob(input) ==
    IF \E w \in DOMAIN input.ways :
          /\ Len(RoadSegment(input, w).points) >= 2
          /\ SliceOutOfRange(RoadSegment(input, w), Intersections(input))
    THEN {Panicked}
    ELSE
    UNION {UNION {{EmitBlobs(input, intersections_vec, edge_node_pairs) :
                      edge_node_pairs \in EdgeNodePairOrders(
                          InsertSegments(input, RoadSegments(input, way_order),
                              NodeIdToIndex(intersections_vec), 1, EmptyMap))} :
                  intersections_vec \in IntersectionOrders(input)} :
           way_order \in HashOrders(DOMAIN input.ways)}

----------------------------------------------------------------------------
(* The graph builder as a state machine: the OSM data is read, and the     *)
(* builder is run on it.                                                   *)

BuildInit ==
    /\ osm \in {Some(input) : input \in OsmInputs}
    /\ built = None
    /\ graph_data = None
    /\ request = None
    /\ response = None
    /\ config = None
    /\ location_blob = None
    /\ outer_buckets = None
    /\ snap_files = None
    /\ snap_buckets = None
    /\ search = None

BuildGraph ==
    /\ osm # None
    /\ built = None
    /\ \E result \in osm_to_graph_blob(osm[1]) : built' = Some(result)
    /\ UNCHANGED <<graph_data, request, response, config, location_blob, outer_buckets,
                   snap_files, snap_buckets, osm>>
    /\ UNCHANGED search

BuildNext == BuildGraph

BuildSpec == BuildInit /\ [][BuildNext]_vars

----------------------------------------------------------------------------
(* The builder on an extract of the data: ways cut by the boundary of the  *)
(* extract refer to nodes the extract does not hold.                       *)

(* The inputs with at most one node not held.  Speeds and signals have no  *)
(* part in the polylines: every way is a fast road, no node has a signal.  *)
ClippedInputs ==
    {[input EXCEPT !.present = OsmNodeIds \ missing] :
        input \in {x \in OsmInputs :
                      /\ x.signals = {}
                      /\ \A w \in DOMAIN x.ways : x.ways[w].pace = 1},
        missing \in {m \in SUBSET OsmNodeIds : Cardinality(m) <= 1}}

ClipInit ==
    /\ osm \in {Some(input) : input \in ClippedInputs}
    /\ built = None
    /\ graph_data = None
    /\ request = None
    /\ response = None
    /\ config = None
    /\ location_blob = None
    /\ outer_buckets = None
    /\ snap_files = None
    /\ snap_buckets = None
    /\ search = None

ClipSpec == ClipInit /\ [][BuildNext]_vars

----------------------------------------------------------------------------
(* The cost of an edge on its way from the builder to the route service:   *)
(* the builder's edge loop writes costs_and_flags from the travel cost of  *)
(* an entry of edge_node_pairs, the service reads the edge cost from it.   *)

(* travel_costs[0] of an entry: -1 where cars are not allowed, else the    *)
(* time in seconds, up to one beyond the cap.                              *)
TravelCosts == {-1} \cup (0 .. (MaxSeconds + 1))

CostInit ==
    /\ built \in {Some([edge_node_pairs |->
                           <<[start_idx |-> 0, end_idx |-> 1,
                              travel_cost |-> t, backwards_allowed |-> b,
                              start_interaction |-> "None",
                              end_interaction |-> "None"]>>]) :
                    t \in TravelCosts, b \in BOOLEAN}
    /\ osm = None
    /\ graph_data = None
    /\ request = None
    /\ response = None
    /\ config = None
    /\ location_blob = None
    /\ outer_buckets = None
    /\ snap_files = None
    /\ snap_buckets = None
    /\ search = None

(* lib.rs:476-580: the edges and nodes are written, and the service loads  *)
(* the blob.                                                               *)
EmitEdges ==
    /\ built # None
    /\ graph_data = None
    /\ graph_data' = Some(BuildGraphBlob(built[1].edge_node_pairs))
    /\ UNCHANGED <<request, response, config, location_blob, outer_buckets,
                   snap_files, snap_buckets, osm, built>>
    /\ UNCHANGED search

(* route.rs:67-75: the service reads the cost of edge 0 *)
ReadEdgeCost ==
    /\ graph_data # None
    /\ response = None
    /\ response' = Some(calculate_edge_cost(graph_data[1], 0))
    /\ UNCHANGED <<graph_data, request, config, location_blob, outer_buckets,
                   snap_files, snap_buckets, osm, built>>
    /\ UNCHANGED search

CostNext == EmitEdges \/ ReadEdgeCost

CostSpec == CostInit /\ [][CostNext]_vars

----------------------------------------------------------------------------
(* The builder's signals and the routes served on its graph: the nodes     *)
(* tagged highway=traffic_signals are kept beside the edge_node_pairs the  *)
(* builder made of them, the blob is written and loaded, and the service   *)
(* routes on it.                                                           *)

SignalInit ==
    /\ \E S \in {T \in SUBSET NodePairs : Cardinality(T) <= MaxEdges} :
         \E order \in EdgeOrders(S) :
           \E ways \in WayAssignments(Len(order)) :
             \E lights \in {L \in SUBSET Nodes : Cardinality(L) <= MaxLights} :
                /\ osm = Some([signals |-> lights])
                /\ built = Some([edge_node_pairs |->
                                    EdgeNodePairs(order, ways, lights)])
    /\ graph_data = None
    /\ request = None
    /\ response = None
    /\ config = None
    /\ location_blob = None
    /\ outer_buckets = None
    /\ snap_files = None
    /\ snap_buckets = None
    /\ search = None

SignalNext == EmitEdges \/ Route \/ Reply

SignalSpec == SignalInit /\ [][SignalNext]_vars

----------------------------------------------------------------------------
(* One run of find_shortest_path, an iteration of its while loop at a      *)
(* time.                                                                   *)

(* Travel times of the edges: a segment a car passes in one second, whose  *)
(* edge cost reads as 0, and one of a full interval.                       *)
EdgeSeconds == {1, SecondsPerInterval}

(* Graphs of two-way roads without signals, the edges of either time *)
SearchGraphs ==
    UNION {{BuildGraphBlob(
                [i \in DOMAIN order |->
                    [start_idx |-> order[i][1],
                     end_idx |-> order[i][2],
                     travel_cost |-> secs[i],
                     backwards_allowed |-> TRUE,
                     start_interaction |-> "None",
                     end_interaction |-> "None"]]) :
                secs \in [DOMAIN order -> EdgeSeconds]} :
           order \in UNION {EdgeOrders(S) :
                   S \in {T \in SUBSET NodePairs : Cardinality(T) <= MaxSearchEdges}}}

SearchRunInit ==
    /\ graph_data \in {Some(g) : g \in SearchGraphs}
    /\ request = None
    /\ response = None
    /\ config = None
    /\ location_blob = None
    /\ outer_buckets = None
    /\ snap_files = None
    /\ snap_buckets = None
    /\ osm = None
    /\ built = None
    /\ search = None

(* route.rs:198-203: the run is set up for a valid start and end edge and  *)
(* a set of edges to avoid.                                                *)
StartSearch ==
    /\ search = None
    /\ \E start_edge_id, end_edge_id \in 0 .. (Len(graph_data[1].edges) - 1) :
         \E avoid_edges \in
               {A \in SUBSET (0 .. (Len(graph_data[1].edges) - 1)) : Cardinality(A) <= 1} :
            /\ request' = Some([start_edge_idx |-> start_edge_id,
                                end_edge_idx |-> end_edge_id,
                                avoid_edges |-> avoid_edges])
            /\ search' = Some(SearchInit(start_edge_id))
    /\ UNCHANGED <<graph_data, response, config, location_blob, outer_buckets,
                   snap_files, snap_buckets, osm, built>>

(* route.rs:207-249: one iteration of the while loop *)
StepSearch ==
    /\ search # None
    /\ search[1].result.kind = "Running"
    /\ search' = Some(SearchStep(graph_data[1], request[1].start_edge_idx,
                                 request[1].end_edge_idx, request[1].avoid_edges,
                                 search[1]))
    /\ UNCHANGED <<graph_data, request, response, config, location_blob,
                   outer_buckets, snap_files, snap_buckets, osm, built>>

SearchNext == StartSearch \/ StepSearch

SearchSpec == SearchRunInit /\ [][SearchNext]_vars

(* The loop runs inside the handler without waiting for anything: an       *)
(* iteration that can run does run.                                        *)
FairSearchSpec == SearchSpec /\ WF_vars(StepSearch)

----------------------------------------------------------------------------
(* Vocabulary of the route properties *)

Served == response # None
Answered == Served /\ response[1].status = "ok"
Loaded == graph_data # None

NumEdges == IF Loaded THEN Len(graph_data[1].edges) ELSE 0
ValidEdge(e) == Loaded /\ e < NumEdges

Endpoint1(e) == graph_data[1].edges[e + 1].point_1_node_idx
Endpoint2(e) == graph_data[1].edges[e + 1].point_2_node_idx
Endpoints(e) == {Endpoint1(e), Endpoint2(e)}
BackwardsAllowed(e) == graph_data[1].edges[e + 1].costs_and_flags % 2 = 1

ReturnedPaths == IF Answered THEN SeqRange(response[1].paths) ELSE {}

RECURSIVE CostFrom(_, _)
(* Sum, over the edges of path p from position i on, of the edge's cost    *)
(* plus the interaction cost at the node joining it to its predecessor.    *)
CostFrom(p, i) ==
    IF i > Len(p.edges) THEN 0
    ELSE calculate_edge_cost(graph_data[1], p.edges[i])
         + calculate_interaction_cost(graph_data[1], p.nodes[i - 1],
                                      p.edges[i - 1], p.edges[i])
         + CostFrom(p, i + 1)

PathCost(p) == CostFrom(p, 2)

(* The edges strictly between the first and the last edge of a path *)
Intermediate(p) == {p.edges[i] : i \in 2 .. (Len(p.edges) - 1)}

----------------------------------------------------------------------------
(* C1: when a route request returns two or more paths, the total cost of   *)
(* the first returned path is at most the total cost of every other        *)
(* returned path.                                                          *)
C1_FirstPathCheapest ==
    Answered /\ Len(response[1].paths) >= 2 =>
        \A j \in 2 .. Len(response[1].paths) :
            PathCost(response[1].paths[1]) <= PathCost(response[1].paths[j])

(* A response whose second path costs strictly more than the first and     *)
(* goes over other intermediate edges.                                     *)
C1_Witness ==
    /\ Answered
    /\ Len(response[1].paths) >= 2
    /\ PathCost(response[1].paths[1]) < PathCost(response[1].paths[2])
    /\ Intermediate(response[1].paths[1]) # Intermediate(response[1].paths[2])

WellFormed(p) ==
    /\ Len(p.edges) >= 1
    /\ p.edges[1] = request[1].start_edge_idx
    /\ p.edges[Len(p.edges)] = request[1].end_edge_idx
    /\ Len(p.nodes) = Len(p.edges) - 1
    /\ \A i \in 1 .. Len(p.nodes) :
          /\ ValidEdge(p.edges[i]) /\ ValidEdge(p.edges[i + 1])
          /\ p.nodes[i] \in Endpoints(p.edges[i])
          /\ p.nodes[i] \in Endpoints(p.edges[i + 1])

(* C2: every returned path is well formed: it starts with the requested    *)
(* start edge, ends with the requested end edge, has one node less than    *)
(* edges, and nodes[i] is an endpoint of both edges[i] and edges[i+1].     *)
C2_PathsWellFormed == \A p \in ReturnedPaths : WellFormed(p)

(* A returned path of at least three edges whose two joining nodes differ *)
C2_Witness ==
    \E p \in ReturnedPaths : Len(p.edges) >= 3 /\ p.nodes[1] # p.nodes[2]

(* Is the edge at position i of path p traversed from its endpoint_2 to    *)
(* its endpoint_1: the start edge left through endpoint_1, the end edge    *)
(* entered through endpoint_2, an edge in between both.                    *)
TraversedBackwards(p, i) ==
    LET e == p.edges[i]
        leaves1 == i < Len(p.edges) /\ p.nodes[i] = Endpoint1(e)
        enters2 == i > 1 /\ p.nodes[i - 1] = Endpoint2(e)
    IN /\ Len(p.edges) >= 2
       /\ IF i = 1 THEN leaves1
          ELSE IF i = Len(p.edges) THEN enters2
          ELSE enters2 /\ leaves1

(* C3: if backwards_allowed(e) is false, no returned path traverses e from *)
(* endpoint_2 to endpoint_1, whatever the position of e in the path: as    *)
(* the start edge, as the end edge or in between.                          *)
C3_NoBackwardsTraversal ==
    \A p \in ReturnedPaths : \A i \in 1 .. Len(p.edges) :
        ValidEdge(p.edges[i]) /\ ~BackwardsAllowed(p.edges[i])
            => ~TraversedBackwards(p, i)

(* The edges the search can step to from edge e *)
Successors(e) ==
    UNION {SeqRange(graph_data[1].nodes[n + 1].edges) : n \in Endpoints(e)} \ {e}

RECURSIVE ReachableFrom(_)
ReachableFrom(S) ==
    LET T == S \cup UNION {Successors(e) : e \in S}
    IN IF T = S THEN S ELSE ReachableFrom(T)

Unreachable(s, t) == ValidEdge(s) /\ ValidEdge(t) /\ ~(t \in ReachableFrom({s}))

(* C4: with valid start and end edges and the end edge unreachable from    *)
(* the start edge, route answers successfully with an empty paths list,    *)
(* not with an error.                                                      *)
C4_UnreachableIsEmptyOk ==
    Served /\ Unreachable(request[1].start_edge_idx, request[1].end_edge_idx)
        => response[1].status = "ok" /\ response[1].paths = <<>>

InvalidRequest ==
    /\ Loaded
    /\ \/ request[1].start_edge_idx >= NumEdges
       \/ request[1].end_edge_idx >= NumEdges

(* C5: a request with start_edge_idx or end_edge_idx >= |edges| is         *)
(* answered with an invalid-argument error, never with a path or a crash.  *)
C5_InvalidIndexRejected ==
    Served /\ InvalidRequest => response[1].status = "invalid_argument"

(* C6: for a valid edge e, a request with start = end = e returns the path *)
(* whose edges are [e] and whose nodes list is empty.                      *)
C6_SameEdgePath ==
    /\ Served
    /\ ValidEdge(request[1].start_edge_idx)
    /\ request[1].start_edge_idx = request[1].end_edge_idx
    => /\ response[1].status = "ok"
       /\ Len(response[1].paths) >= 1
       /\ \A p \in SeqRange(response[1].paths) :
             p = [edges |-> <<request[1].start_edge_idx>>, nodes |-> <<>>]

(* Such a request has been answered, on a graph where the edge has neighbours *)
C6_Witness ==
    /\ Answered
    /\ ValidEdge(request[1].start_edge_idx)
    /\ request[1].start_edge_idx = request[1].end_edge_idx
    /\ Successors(request[1].start_edge_idx) # {}
    /\ response[1].paths[1].edges = <<request[1].start_edge_idx>>

(* C7: an edge that appears in an earlier returned path appears in a later *)
(* returned path only if it is the start edge or the target edge.          *)
C7_PathsShareNoIntermediate ==
    Answered =>
        \A i, j \in 1 .. Len(response[1].paths) : i < j =>
            SeqRange(response[1].paths[i].edges)
                \cap SeqRange(response[1].paths[j].edges)
            \subseteq {request[1].start_edge_idx, request[1].end_edge_idx}

(* Two returned paths, each with an intermediate edge *)
C7_Witness ==
    /\ Answered
    /\ Len(response[1].paths) >= 2
    /\ Intermediate(response[1].paths[1]) # {}
    /\ Intermediate(response[1].paths[2]) # {}

(* C8: the number of paths in a response never exceeds the num_paths the   *)
(* request asked for (stated for requests that name valid edges).          *)
C8_AtMostKPaths ==
    /\ Answered
    /\ ValidEdge(request[1].start_edge_idx)
    /\ ValidEdge(request[1].end_edge_idx)
    => Len(response[1].paths) <= request[1].num_paths

(* C9: in a service whose graph was not loaded, every route request is     *)
(* answered with a service-unavailable error and no search is attempted.   *)
C9_NotLoadedUnavailable ==
    Served /\ ~Loaded =>
        /\ response[1].status = "unavailable"
        /\ ~response[1].searched
        /\ response[1].paths = <<>>

(* A request has been answered by a service without a graph *)
C9_Witness == Served /\ ~Loaded /\ response[1].status = "unavailable"

----------------------------------------------------------------------------
(* Vocabulary of the snap index properties *)

Written == snap_files # None

(* The places (file, bucket, entry) at which edge e is indexed *)
IndexedAt(e) ==
    {x \in UNION {{<<o, b, i>> :
                      b \in 1 .. Len(snap_files[1][o]),
                      i \in 1 .. (NumNodes * MaxEdges)} : o \in DOMAIN snap_files[1]} :
        /\ x[3] <= Len(snap_files[1][x[1]][x[2]].edge_indexes)
        /\ snap_files[1][x[1]][x[2]].edge_indexes[x[3]] = e}

(* C10: in the snap index written by snapbuild every edge of the graph     *)
(* appears in exactly one (outer file, inner bucket) pair and exactly once *)
(* within that bucket.                                                     *)
C10_EdgeIndexedOnce ==
    Written => \A e \in 0 .. (NumEdges - 1) : Cardinality(IndexedAt(e)) = 1

----------------------------------------------------------------------------
(* Vocabulary of the snap service properties *)

SnapServed == snap_buckets # None /\ response # None

QueryCell == CellFromLatLng(request[1].lat_lng)
QueryOuter == parent_cell_id(QueryCell, config[1].outer_cell_level)
QueryInner == parent_cell_id(QueryCell, config[1].inner_cell_level)

(* The buckets snapbuild wrote, over all files *)
WrittenBuckets ==
    UNION {SeqRange(snap_files[1][o]) : o \in DOMAIN snap_files[1]}

(* The edge indexes written in some bucket next to the cell id c *)
IndexesWrittenWith(c) ==
    UNION {{b.edge_indexes[i] : i \in {j \in 1 .. Len(b.edge_cell_ids) :
                                          b.edge_cell_ids[j] = c}} :
           b \in WrittenBuckets}

(* The bucket the service looks the query up in, if there is one *)
QueryBucket ==
    IF QueryOuter \in DOMAIN snap_buckets[1]
    THEN BucketFor(snap_buckets[1][QueryOuter], QueryInner)
    ELSE None

(* Distance of two cells along the curve *)
CellDistance(a, b) == IF a < b THEN b - a ELSE a - b

(* C11: round trip between snapbuild and the snap service at the same      *)
(* levels: a snap request at the centre of a cell id written as some       *)
(* edge_cell_ids[i] is answered with the edge index written next to it     *)
(* (with one written next to it, where several entries carry the cell id). *)
C11_SnapRoundTrip ==
    /\ SnapServed
    /\ request[1].lat_lng = CellCenter(QueryCell)
    /\ IndexesWrittenWith(QueryCell) # {}
    => /\ response[1].status = "ok"
       /\ response[1].edge_index \in IndexesWrittenWith(QueryCell)

(* C12: when the bucket of the query's inner cell exists and is not empty, *)
(* the service answers with an entry of that bucket, no other entry of the *)
(* bucket is strictly closer to the query cell than the returned one, and  *)
(* the lookup does not fail arithmetically.                                *)
C12_ClosestEntryReturned ==
    /\ SnapServed
    /\ QueryBucket # None
    /\ QueryBucket[1].edge_cell_ids # <<>>
    => LET b == QueryBucket[1]
           entries == 1 .. Len(b.edge_cell_ids)
       IN /\ response[1].status = "ok"
          /\ \E i \in entries :
                /\ response[1].edge_index = b.edge_indexes[i]
                /\ response[1].lat_lng = CellCenter(b.edge_cell_ids[i])
          /\ \A j \in entries :
                CellDistance(b.edge_cell_ids[j], QueryCell)
                    >= CellDistance(response[1].lat_lng.cell, QueryCell)

(* C13: a snap request whose outer cell has no loaded file, or whose inner *)
(* cell has no bucket in that file or only an empty one, is answered with  *)
(* the input coordinate unchanged, edge_index = 0 and no error.            *)
C13_UnsnappedReturnsInput ==
    /\ SnapServed
    /\ \/ QueryBucket = None
       \/ QueryBucket[1].edge_cell_ids = <<>>
    => response[1] = [status |-> "ok", edge_index |-> 0,
                      lat_lng |-> request[1].lat_lng]

(* A request away from the centre of its cell has been answered, by a      *)
(* service that holds files but none for the request's outer cell.         *)
C13_Witness ==
    /\ SnapServed
    /\ DOMAIN snap_buckets[1] # {}
    /\ QueryOuter \notin DOMAIN snap_buckets[1]
    /\ request[1].lat_lng # CellCenter(QueryCell)
    /\ response[1].lat_lng = request[1].lat_lng

----------------------------------------------------------------------------
(* Vocabulary of the graph builder properties *)

Built == built # None

BuiltEdges == built[1].graph.edges
BuiltNodes == built[1].graph.nodes

(* backwards_allowed as the blob holds it, bit 0 of costs_and_flags *)
FlaggedBackwards(edge) == edge.costs_and_flags % 2 = 1

(* The index the edges use for the intersection node_id *)
IndexOfNode(node_id) == NodeIdToIndex(built[1].intersections_vec)[node_id]

(* The ways of the data that consist of the node list l and are one-way *)
OnewayWaysAlong(l) ==
    {w \in DOMAIN osm[1].ways : osm[1].ways[w].nodes = l /\ osm[1].ways[w].is_oneway}

(* Some way of the data passes twice in a row through one intersection *)
HasSameNodeWindow ==
    \E w \in DOMAIN osm[1].ways :
        LET inodes == IntersectionNodes(RoadSegment(osm[1], w), Intersections(osm[1]))
        IN \E i \in 1 .. (Len(inodes) - 1) : inodes[i][2] = inodes[i + 1][2]

(* C14: every edge emitted by the graph builder has endpoint_1 <           *)
(* endpoint_2, both in [0, |nodes|), no two emitted edges have the same    *)
(* pair of endpoints, and a segment between one node index and itself      *)
(* gives no edge.                                                          *)
C14_EdgesCanonical ==
    Built =>
        /\ \A i \in DOMAIN BuiltEdges :
              /\ 0 <= BuiltEdges[i].point_1_node_idx
              /\ BuiltEdges[i].point_1_node_idx < BuiltEdges[i].point_2_node_idx
              /\ BuiltEdges[i].point_2_node_idx < Len(BuiltNodes)
        /\ \A i, j \in DOMAIN BuiltEdges :
              /\ BuiltEdges[i].point_1_node_idx = BuiltEdges[j].point_1_node_idx
              /\ BuiltEdges[i].point_2_node_idx = BuiltEdges[j].point_2_node_idx
              => i = j

(* A graph with an edge, built from data in which a way loops back to an   *)
(* intersection and another way runs against the order of the indices.     *)
C14_Witness ==
    /\ Built
    /\ HasSameNodeWindow
    /\ BuiltEdges # <<>>
    /\ \E w \in DOMAIN osm[1].ways :
          LET l == osm[1].ways[w].nodes
          IN /\ Len(l) = 2
             /\ IndexOfNode(l[1]) > IndexOfNode(l[2])

(* C15: in the built graph every edge x is in the edge list of the node    *)
(* endpoint_1, and in that of the node endpoint_2 if and only if it is     *)
(* flagged backwards_allowed; and after the final sort of the nodes the    *)
(* node stored at position p is the node the edges refer to as index p.    *)
C15_EdgeRefsMatchNodes ==
    Built =>
        /\ \A i \in DOMAIN BuiltEdges :
              /\ (i - 1) \in SeqRange(BuiltNodes[BuiltEdges[i].point_1_node_idx + 1].edges)
              /\ (i - 1) \in SeqRange(BuiltNodes[BuiltEdges[i].point_2_node_idx + 1].edges)
                    <=> FlaggedBackwards(BuiltEdges[i])
        /\ \A p \in DOMAIN BuiltNodes :
              /\ built[1].nodes_with_edges[p].node_id = built[1].intersections_vec[p]
              /\ built[1].location.node_location_items[p]
                    = osm[1].cells[built[1].intersections_vec[p]]
              /\ \A x \in SeqRange(BuiltNodes[p].edges) :
                    (p - 1) \in {BuiltEdges[x + 1].point_1_node_idx,
                                 BuiltEdges[x + 1].point_2_node_idx}

(* A graph built on two intersections of one cell, one with an edge list   *)
(* and one without, with an edge flagged backwards_allowed and one not.    *)
C15_Witness ==
    /\ Built
    /\ \E p, q \in DOMAIN BuiltNodes :
          /\ p # q
          /\ built[1].location.node_location_items[p]
                = built[1].location.node_location_items[q]
          /\ BuiltNodes[p].edges # BuiltNodes[q].edges
    /\ \E i, j \in DOMAIN BuiltEdges :
          FlaggedBackwards(BuiltEdges[i]) /\ ~FlaggedBackwards(BuiltEdges[j])

(* No two intersections of the data lie in one leaf cell *)
NoEqualNodeTokens ==
    \A a, b \in Intersections(osm[1]) : a # b => osm[1].cells[a] # osm[1].cells[b]

(* C16: for every edge the builder emits for a travel time from 1 second   *)
(* on (clamped to [1, 16384]), the seconds field costs_and_flags >> 3 lies *)
(* in [1, 16384].                                                          *)
C16_SecondsFieldInRange ==
    /\ graph_data # None
    /\ built # None
    /\ built[1].edge_node_pairs[1].travel_cost >= 1
    => EdgeCostShift(graph_data[1].edges[1].costs_and_flags) \in 1 .. MaxSeconds

(* C17: the graph build is deterministic: every result the builder can     *)
(* give on the data, whatever order its hash maps are iterated in, has the *)
(* graph and location blobs of the result it gave (stated for data in      *)
(* which no two intersections lie in one leaf cell).                       *)
C17_BuildDeterministic ==
    Built /\ NoEqualNodeTokens =>
        \A again \in osm_to_graph_blob(osm[1]) :
            /\ again.graph = built[1].graph
            /\ again.location = built[1].location

(* C18: a way tagged oneway running from A to B and one tagged oneway      *)
(* running from B to A are merged into exactly one edge, flagged           *)
(* backwards_allowed.                                                      *)
C18_OpposingOnewaysMerge ==
    Built =>
        \A a, b \in OsmNodeIds :
            /\ a # b
            /\ OnewayWaysAlong(<<a, b>>) # {}
            /\ OnewayWaysAlong(<<b, a>>) # {}
            => LET between ==
                       {i \in DOMAIN BuiltEdges :
                           {BuiltEdges[i].point_1_node_idx, BuiltEdges[i].point_2_node_idx}
                               = {IndexOfNode(a), IndexOfNode(b)}}
               IN /\ Cardinality(between) = 1
                  /\ \A i \in between : FlaggedBackwards(BuiltEdges[i])

(* A graph built from two opposing one-way ways, the one from the lower to *)
(* the higher node index coming first in road_segments.                    *)
C18_Witness ==
    /\ Built
    /\ \E a, b \in OsmNodeIds :
          /\ OnewayWaysAlong(<<a, b>>) # {}
          /\ OnewayWaysAlong(<<b, a>>) # {}
          /\ IndexOfNode(a) < IndexOfNode(b)
          /\ \E i \in DOMAIN BuiltEdges :
                /\ BuiltEdges[i].point_1_node_idx = IndexOfNode(a)
                /\ BuiltEdges[i].point_2_node_idx = IndexOfNode(b)
                /\ FlaggedBackwards(BuiltEdges[i])

(* ---- Traffic signals on a route ---- *)

Signals == IF osm # None THEN osm[1].signals ELSE {}

(* Passage i of path p: from p.edges[i] through p.nodes[i] into           *)
(* p.edges[i + 1].                                                        *)
Passages(p) == 1 .. Len(p.nodes)

PassageCost(p, i) ==
    calculate_interaction_cost(graph_data[1], p.nodes[i], p.edges[i], p.edges[i + 1])

(* C19: when a node built from an OSM node tagged highway=traffic_signals  *)
(* joins two consecutive edges of a returned route, the interaction cost   *)
(* the search adds for that passage is 32, whichever way the edges are     *)
(* indexed around the node and also when the incoming edge is one-way      *)
(* into it.                                                                *)
C19_SignalTransitCosts32 ==
    \A p \in ReturnedPaths :
        \A i \in Passages(p) :
            p.nodes[i] \in Signals => PassageCost(p, i) = 32

(* ---- The least cost over the edge-dual ---- *)

(* The steps of the edge-dual: from edge c through its endpoint n into an  *)
(* edge e of the incident edges of n.                                      *)
DualSteps ==
    {x \in (0 .. (NumEdges - 1)) \X Nodes \X (0 .. (NumEdges - 1)) :
        /\ x[2] \in Endpoints(x[1])
        /\ x[3] \in SeqRange(graph_data[1].nodes[x[2] + 1].edges)}

StepCost(x) ==
    SaturatingAdd(calculate_edge_cost(graph_data[1], x[3]),
                  calculate_interaction_cost(graph_data[1], x[2], x[1], x[3]))

(* The least of a non-empty set of totals *)
Least(S) == CHOOSE c \in S : \A d \in S : c <= d

RECURSIVE LeastRound(_, _, _)
(* One more step: acc holds the new least totals of edges 0 .. Len(acc)-1, *)
(* dist[e + 1] the least total of edge e over the shorter sequences.       *)
LeastRound(steps, dist, acc) ==
    IF Len(acc) = Len(dist) THEN acc
    ELSE LET e == Len(acc)
             into == {SaturatingAdd(dist[x[1] + 1], StepCost(x)) :
                         x \in {y \in steps : y[3] = e}}
         IN LeastRound(steps, dist, Append(acc, Least(into \cup {dist[e + 1]})))

RECURSIVE LeastCosts(_, _, _)
(* The least totals of the edge sequences of at most `rounds` more steps *)
LeastCosts(steps, dist, rounds) ==
    IF rounds = 0 THEN dist
    ELSE LeastCosts(steps, LeastRound(steps, dist, <<>>), rounds - 1)

RECURSIVE StartCosts(_, _)
(* Total 0 for the sequence of s alone, u32::MAX for every other edge *)
StartCosts(s, acc) ==
    IF Len(acc) > NumEdges THEN acc
    ELSE StartCosts(s, Append(acc, IF Len(acc) = s THEN 0 ELSE U32Max))

(* The least total of any edge sequence of the edge-dual from s to t, or   *)
(* u32::MAX when there is none.  The sequence of s alone has total 0; the  *)
(* first index past the edges vector has no step out of it or into it.     *)
LeastCost(s, t) ==
    LeastCosts(DualSteps, StartCosts(s, <<>>), NumEdges)[t + 1]

FirstPath == response[1].paths[1]

FirstPathFound ==
    /\ Answered
    /\ response[1].paths # <<>>
    /\ FirstPath.edges # <<>>

(* C20: the path find_shortest_path returns for an empty avoid set (the    *)
(* first path of the response) is a minimum-cost path of the edge-dual:    *)
(* no edge sequence from the start edge to the end edge, each next edge    *)
(* taken from the incident edges of an endpoint of the current one, has a  *)
(* strictly smaller total of edge and interaction costs.                   *)
C20_FirstPathIsMinimumCost ==
    FirstPathFound =>
        PathCost(FirstPath) <= LeastCost(request[1].start_edge_idx,
                                         request[1].end_edge_idx)

(* A first path of three or more edges whose end edge is also entered, at  *)
(* a strictly greater total, from another edge the start edge reaches.     *)
C20_Witness ==
    /\ FirstPathFound
    /\ Len(FirstPath.edges) >= 3
    /\ \E x \in DualSteps :
          /\ x[3] = request[1].end_edge_idx
          /\ x[1] # FirstPath.edges[Len(FirstPath.edges) - 1]
          /\ LeastCost(request[1].start_edge_idx, x[1]) < U32Max
          /\ LeastCost(request[1].start_edge_idx, x[1]) + StepCost(x)
                > PathCost(FirstPath)

(* ---- The cost word, written by the builder and read by the service ---- *)

(* The one edge of the cost specification, as the builder's edge loop is   *)
(* handed it, and the word stored for it.                                  *)
CostEdge == built[1].edge_node_pairs[1]
StoredWord == graph_data[1].edges[1].costs_and_flags
CostRead == built # None /\ graph_data # None /\ response # None

(* C21: the builder and the route service agree on the costs_and_flags     *)
(* layout: for every car-permitted edge, the edge cost the service reads   *)
(* (costs_and_flags >> 3) equals the clamped traversal time in seconds the *)
(* builder computed for the edge, and bit 0 is backwards_allowed.          *)
C21_LayoutAgreed ==
    CostRead /\ CostEdge.travel_cost > 0 =>
        /\ response[1] = DriveCost(CostEdge.travel_cost)
        /\ (StoredWord % 2 = 1) <=> CostEdge.backwards_allowed

(* The cost the service reads for an edge of travel time t *)
CostReadFor(t, b) ==
    calculate_edge_cost(
        BuildGraphBlob(<<[CostEdge EXCEPT !.travel_cost = t,
                                          !.backwards_allowed = b]>>), 0)

(* C27: an edge built from a way on which cars are not allowed (car cost   *)
(* -1) is stored with the maximum traversal cost, so the edge cost the     *)
(* service computes for it is at least that of any car-permitted edge, and *)
(* the 16-bit encoding of the cost does not wrap.                          *)
C27_NoCarEdgeCostsMost ==
    CostRead /\ CostEdge.travel_cost = -1 =>
        /\ DriveCost(CostEdge.travel_cost) * 4 < U16Mod
        /\ \A t \in TravelCosts : \A b \in BOOLEAN :
              t > 0 => CostReadFor(t, b) <= response[1]

(* ---- The direction of one-way roads ---- *)

(* The pairs <<a, b>> of intersections way w passes through one after the  *)
(* other, in the way's direction.                                          *)
WindowsOf(w) ==
    LET inodes == IntersectionNodes(RoadSegment(osm[1], w), Intersections(osm[1]))
    IN {<<inodes[i][2], inodes[i + 1][2]>> : i \in 1 .. (Len(inodes) - 1)}

(* The ways that connect intersections x and y *)
Connecting(x, y) ==
    {w \in DOMAIN osm[1].ways : <<x, y>> \in WindowsOf(w) \/ <<y, x>> \in WindowsOf(w)}

(* Every way connecting x and y is tagged oneway=yes and runs from x to y *)
OnlyOnewayFrom(x, y) ==
    /\ x # y
    /\ Connecting(x, y) # {}
    /\ \A w \in Connecting(x, y) :
          /\ osm[1].ways[w].is_oneway
          /\ <<y, x>> \notin WindowsOf(w)

(* The edge may be traversed starting from node index n *)
TraversableFrom(edge, n) ==
    \/ n = edge.point_1_node_idx
    \/ n = edge.point_2_node_idx /\ FlaggedBackwards(edge)

(* C22: the built graph preserves the direction of one-way roads: if every *)
(* way connecting intersections X and Y is tagged oneway=yes and runs from *)
(* X to Y, the resulting edge cannot be traversed from Y to X, whichever   *)
(* of X and Y receives the smaller node index.                             *)
C22_OnewayDirectionKept ==
    Built =>
        \A x, y \in Intersections(osm[1]) :
            OnlyOnewayFrom(x, y) =>
                \A i \in DOMAIN BuiltEdges :
                    {BuiltEdges[i].point_1_node_idx, BuiltEdges[i].point_2_node_idx}
                        = {IndexOfNode(x), IndexOfNode(y)}
                    => ~TraversableFrom(BuiltEdges[i], IndexOfNode(y))

(* ---- The polylines of the edges ---- *)

BuildPanicked == built # None /\ built[1] = Panicked

(* The stored polyline of edge i (1-based position in the edges vector) *)
Polyline(i) == built[1].location.edge_location_items[i]

(* The cell stored for the node of index n *)
CellOfIndex(n) == built[1].location.node_location_items[n + 1]

(* C23: for every edge the builder emits, the stored polyline has length   *)
(* >= 2, runs from endpoint_1 to endpoint_2 with its first and last points *)
(* the cells of endpoint_1 and endpoint_2, also for ways of which some     *)
(* node ids are missing from the data, and edge extraction never indexes   *)
(* past the end of the point list.                                         *)
C23_PolylinesJoinEndpoints ==
    Built =>
        /\ ~BuildPanicked
        /\ \A i \in DOMAIN BuiltEdges :
              /\ Len(Polyline(i)) >= 2
              /\ Polyline(i)[1] = CellOfIndex(BuiltEdges[i].point_1_node_idx)
              /\ Polyline(i)[Len(Polyline(i))]
                    = CellOfIndex(BuiltEdges[i].point_2_node_idx)

(* ---- The files snapbuild writes ---- *)

(* The outer cells a file was written for *)
WrittenFiles == DOMAIN snap_files[1]

(* C24: in every snap file written by snapbuild each bucket entry is filed *)
(* under the cell it records: the inner-level parent of edge_cell_ids[i]   *)
(* equals the bucket's cell_id, and the outer-level parent of the bucket's *)
(* cell_id equals the outer cell the file is named after.                  *)
C24_EntriesFiledUnderTheirCell ==
    Written =>
        \A o \in WrittenFiles :
            \A k \in 1 .. Len(snap_files[1][o]) :
                LET b == snap_files[1][o][k]
                IN /\ parent_cell_id(b.cell_id, config[1].outer_cell_level) = o
                   /\ \A i \in 1 .. Len(b.edge_cell_ids) :
                         parent_cell_id(b.edge_cell_ids[i], config[1].inner_cell_level)
                             = b.cell_id

(* C25: snapbuild writes a file only for outer cells that contain at least *)
(* one indexed edge: every written file has a bucket with a non-empty edge *)
(* list, also when an outer cell holds only nodes without incident edges.  *)
C25_NoFileWithoutEdges ==
    Written =>
        \A o \in WrittenFiles :
            \E k \in 1 .. Len(snap_files[1][o]) :
                snap_files[1][o][k].edge_indexes # <<>>

(* ---- The order of the pops ---- *)

(* The pops of the first Dijkstra run of the request served *)
FirstRunPops ==
    SearchPops(graph_data[1], request[1].start_edge_idx, request[1].end_edge_idx,
               {}, SearchInit(request[1].start_edge_idx), <<>>)

(* C26: within one Dijkstra run the queue entries are popped in the total  *)
(* order (cost, edge_index) of a min-heap: the popped costs never decrease *)
(* over the run, and of two queued entries of equal cost the one with the  *)
(* smaller edge index is popped first.                                     *)
C26_PopsInCostThenIndexOrder ==
    Served /\ Loaded =>
        LET pops == FirstRunPops
        IN /\ \A i, j \in DOMAIN pops :
                 i < j => pops[i].popped[1] <= pops[j].popped[1]
           /\ \A i \in DOMAIN pops : \A y \in pops[i].queued :
                 y[1] = pops[i].popped[1] => pops[i].popped[2] <= y[2]

(* ---- The paths of one response, compared ---- *)

(* C28: the paths in one route response are pairwise distinct: find_paths  *)
(* never returns the same edge sequence twice, also when the start edge    *)
(* and the end edge are adjacent and when they are the same edge.          *)
C28_PathsPairwiseDistinct ==
    Answered =>
        \A i, j \in DOMAIN response[1].paths :
            i < j => response[1].paths[i].edges # response[1].paths[j].edges

(* ---- The sides an edge is entered and left through ---- *)

(* C29: in every returned path of three or more edges each intermediate    *)
(* edge is entered through one endpoint and left through the other: the    *)
(* node joining it to its predecessor differs from the node joining it to  *)
(* its successor.                                                          *)
C29_NoTurnBackAtANode ==
    \A p \in ReturnedPaths :
        \A i \in 2 .. (Len(p.edges) - 1) : p.nodes[i - 1] # p.nodes[i]

(* A returned path of three or more edges whose first joining node has a   *)
(* third edge in its edge list, into which the path could have turned      *)
(* back.                                                                   *)
C29_Witness ==
    \E p \in ReturnedPaths :
        /\ Len(p.edges) >= 3
        /\ \E e \in SeqRange(graph_data[1].nodes[p.nodes[1] + 1].edges) :
              e \notin {p.edges[1], p.edges[2]}

(* ---- The end of a search ---- *)

Searching == search # None /\ search[1].result.kind = "Running"
SearchDone == search # None /\ search[1].result.kind \in {"Ok", "Err"}

RECURSIVE WalkBack(_, _, _, _)
(* Do the links of prev_info lead from current to start_edge_id in at most *)
(* fuel steps                                                              *)
WalkBack(prev_info, start_edge_id, current, fuel) ==
    IF current = start_edge_id THEN TRUE
    ELSE IF fuel = 0 \/ current \notin DOMAIN prev_info THEN FALSE
    ELSE WalkBack(prev_info, start_edge_id, prev_info[current][1], fuel - 1)

(* The links recorded form no cycle and lead back to the start edge *)
LinksLeadToStart ==
    search # None =>
        \A e \in DOMAIN search[1].prev_info :
            WalkBack(search[1].prev_info, request[1].start_edge_idx, e,
                     Cardinality(DOMAIN search[1].prev_info))

====
